---- MODULE Spec2Model ----
(***************************************************************************)
(* A model of automated-diff.py: the batch loop of main() over the hosts,  *)
(* the SSH session of ssh_command() against a remote device whose output   *)
(* arrives with arbitrary timing, the snapshot / consolidated files it      *)
(* writes, and the post-phase diff loop of main().                          *)
(*                                                                          *)
(* Text is a sequence of pieces: a one-character string for every character *)
(* that comes from the device or from a command, and one string for every   *)
(* literal of the script ("Command: ", SEPARATOR, ...).  Concatenating      *)
(* Python strings is \o on these sequences.                                 *)
(***************************************************************************)
EXTENDS Integers, Sequences, FiniteSets, TLC

\* How many SSH sessions a behaviour follows: a batch of n hosts may be started while
\* runs * n stays within it (one host twice, or two hosts once).
MaxSessions == 2
\* How many times the environment misbehaves in a behaviour: a disk write that raises
\* IOError, or a read loop that ends while the device has output still to deliver.
MaxFaults == 1

\* automated-diff.py:40  SEPARATOR = '-' * 60
SEPARATOR == "------------------------------------------------------------"

(***************************************************************************)
(* The inputs of a run: hosts.txt, the device command file, and what the   *)
(* remote device may answer.                                                *)
(***************************************************************************)
H1 == <<"h1">>
H2 == <<"h2">>
\* hosts.txt as read at automated-diff.py:285-286
HostFiles == { <<H1>>, <<H1, H2>> }

ShowVersion == <<"s", " ", "v">>
ShowClock == <<"s", " ", "c">>
\* a command that differs from ShowVersion in a substituted character alone
ShowSlash == <<"s", "/", "v">>

\* The text of a device command file (C-ASR9K.txt, ...): two commands; a command
\* followed by an empty line; two commands that differ in "/" for " ".
DeviceFiles ==
    { ShowVersion \o <<"\n">> \o ShowClock \o <<"\n">>,
      ShowVersion \o <<"\n", "\n">>,
      ShowVersion \o <<"\n">> \o ShowSlash \o <<"\n">> }

RECURSIVE SplitAtLineEnds(_, _)
\* the lines of a text without their line ends; "\n", "\r\n" and "\r" end a line,
\* and the text after the last line end is a line if it is not empty
SplitAtLineEnds(text, cur) ==
    IF text = <<>> THEN (IF cur = <<>> THEN <<>> ELSE <<cur>>)
    ELSE IF Head(text) = "\n"
         THEN <<cur>> \o SplitAtLineEnds(Tail(text), <<>>)
    ELSE IF Head(text) = "\r"
         THEN LET rest == Tail(text)
                  after == IF rest # <<>> /\ Head(rest) = "\n" THEN Tail(rest) ELSE rest
              IN  <<cur>> \o SplitAtLineEnds(after, <<>>)
    ELSE SplitAtLineEnds(Tail(text), Append(cur, Head(text)))

\* str.splitlines(): every line of the text, the empty ones too
splitlines(text) == SplitAtLineEnds(text, <<>>)

\* the device command file as read at automated-diff.py:272-273
CommandFiles == { splitlines(text) : text \in DeviceFiles }

Phases == {"pre", "post"}

\* What the device prints in answer to one command of the list.
Replies == { <<>>, <<"a", "\n">>, <<"a", "\r", "\n">>, <<"b", "\n">> }
\* What the device prints in answer to "clear logging".
ClearReply == <<"#">>
\* Origin tag of the bytes printed in answer to "clear logging".
ClearTag == 0
\* Origin tag of the bytes the device prints of its own accord (console messages).
OwnTag == -1
\* What the device prints of its own accord.
OwnBytes == <<"%">>

(***************************************************************************)
(* Text helpers                                                            *)
(***************************************************************************)
Whitespace == {" ", "\t", "\n", "\r"}

\* a test of the length alone
StripIsEmpty_len(text) == text = <<>>

\* str.strip() == "" : every character is whitespace
StripIsEmpty(text) == \A i \in 1..Len(text) : text[i] \in Whitespace

\* bytes of the channel carry the index of the command that elicited them
Tagged(text, k) == [i \in 1..Len(text) |-> [ch |-> text[i], of |-> k]]
Text(bytes) == [i \in 1..Len(bytes) |-> bytes[i].ch]
Origins(bytes) == {bytes[i].of : i \in 1..Len(bytes)}

RECURSIVE command_safe(_)
\* command.replace(' ', '_').replace('|', '').replace('/', '_')
command_safe(command) ==
    IF command = <<>> THEN <<>>
    ELSE LET ch == Head(command)
             rest == command_safe(Tail(command))
         IN  IF ch = " " \/ ch = "/" THEN <<"_">> \o rest
             ELSE IF ch = "|" THEN rest
             ELSE <<ch>> \o rest

\* os.path.join(ticket_number, f"{host}-{command_safe}.{health_check_type}")
output_file(host, command, phase) ==
    host \o <<"-">> \o command_safe(command) \o <<".", phase>>

\* one consolidated file for both phases
consolidated_file_anyphase(host, phase) == host \o <<".", "precheck">>

\* os.path.join(ticket_number, f"{host}.precheck") / f"{host}.postcheck"
consolidated_file(host, phase) ==
    host \o <<".", IF phase = "pre" THEN "precheck" ELSE "postcheck">>

\* os.path.join(ticket_number, f"{host}.out")
diff_output_file(host) == host \o <<".", "out">>

\* f"Command: {command}\n{output}\n{SEPARATOR}\n"
ConsolidatedRecord(command, text) ==
    <<"Command: ">> \o command \o <<"\n">> \o text \o <<"\n", SEPARATOR, "\n">>

RECURSIVE SplitLines_raw(_, _)
\* lines cut at "\n" alone, every "\r" kept
SplitLines_raw(text, cur) ==
    IF text = <<>> THEN (IF cur = <<>> THEN <<>> ELSE <<cur>>)
    ELSE IF Head(text) = "\n"
         THEN <<Append(cur, "\n")>> \o SplitLines_raw(Tail(text), <<>>)
    ELSE SplitLines_raw(Tail(text), Append(cur, Head(text)))

readlines_raw(text) == SplitLines_raw(text, <<>>)

RECURSIVE SplitLines(_, _)
\* file.readlines() of a file opened in text mode: universal newlines, so
\* "\r\n" and a lone "\r" both end a line and are read as "\n"
SplitLines(text, cur) ==
    IF text = <<>> THEN (IF cur = <<>> THEN <<>> ELSE <<cur>>)
    ELSE IF Head(text) = "\n"
         THEN <<Append(cur, "\n")>> \o SplitLines(Tail(text), <<>>)
    ELSE IF Head(text) = "\r"
         THEN LET rest == Tail(text)
                  after == IF rest # <<>> /\ Head(rest) = "\n" THEN Tail(rest) ELSE rest
              IN  <<Append(cur, "\n")>> \o SplitLines(after, <<>>)
    ELSE SplitLines(Tail(text), Append(cur, Head(text)))

readlines(text) == SplitLines(text, <<>>)

RECURSIVE LcsLen(_, _)
LcsLen(a, b) ==
    IF a = <<>> \/ b = <<>> THEN 0
    ELSE IF Head(a) = Head(b) THEN 1 + LcsLen(Tail(a), Tail(b))
    ELSE LET x == LcsLen(Tail(a), b)
             y == LcsLen(a, Tail(b))
         IN  IF x >= y THEN x ELSE y

RECURSIVE DiffBody(_, _)
\* the lines of the hunk: " " + common line, "-" + removed line, "+" + added line
DiffBody(a, b) ==
    IF a = <<>> /\ b = <<>> THEN <<>>
    ELSE IF a = <<>> THEN <<"+">> \o Head(b) \o DiffBody(a, Tail(b))
    ELSE IF b = <<>> THEN <<"-">> \o Head(a) \o DiffBody(Tail(a), b)
    ELSE IF Head(a) = Head(b) THEN <<" ">> \o Head(a) \o DiffBody(Tail(a), Tail(b))
    ELSE IF LcsLen(Tail(a), b) >= LcsLen(a, Tail(b))
         THEN <<"-">> \o Head(a) \o DiffBody(Tail(a), b)
         ELSE <<"+">> \o Head(b) \o DiffBody(a, Tail(b))

\* "".join(difflib.unified_diff(pre_lines, post_lines, fromfile=.., tofile=..)):
\* nothing when the two line lists are equal, else the two file labels, a hunk
\* header and the hunk's lines (files here are shorter than the 3 lines of context,
\* so there is one hunk holding every line)
unified_diff(pre_lines, post_lines, fromfile, tofile) ==
    IF pre_lines = post_lines THEN <<>>
    ELSE <<"--- ">> \o fromfile \o <<"\n", "+++ ">> \o tofile \o <<"\n", "@@", "\n">>
         \o DiffBody(pre_lines, post_lines)

(***************************************************************************)
(* State                                                                   *)
(***************************************************************************)
VARIABLES
    hosts,              \* main: the host list of hosts.txt
    commands,           \* main: the command list of the device file
    run,                \* how many times the script has been started
    health_check_type,  \* main: "pre" or "post"
    pc,                 \* main's position: stopped, hosts, diff_open, diff, summary
    h,                  \* index of the host of the running loop (302 or 313)
    c,                  \* index of the command of the running loop (112 or 317)
    spc,                \* ssh_command's position for host h
    conn,               \* per host index: the SSH connection, none / live / closed
    dev,                \* bytes the device has yet to deliver to the channel
    buf,                \* bytes the channel holds (recv_ready() is buf # <<>>)
    output,             \* ssh_command: the bytes captured for command c
    fs,                 \* the ticket directory: file name -> content
    unreachable_hosts,  \* main: the hosts whose ssh_command returned an error
    error,              \* per host index: what ssh_command returned
    sent,               \* what this session transmitted: 0 for clear logging, k for command k
    log,                \* per command of this session: the text captured and what was logged
                        \* for it (125, 134/136, 143/145)
    reconciled,         \* host indexes whose diff report this run has opened
    summary,            \* the counts printed at 348-349 and the list printed at 356-357
    faults,             \* how many times the environment has misbehaved
    fresh               \* history: the snapshot files this run has opened and written to

vars == <<hosts, commands, run, health_check_type, pc, h, c, spc, conn, dev, buf,
          output, fs, unreachable_hosts, error, sent, log, reconciled, summary, faults,
          fresh>>

NoSummary == [processed_count |-> -1, failed_count |-> -1, failed |-> <<>>]

exists(name) == name \in DOMAIN fs

\* open(name, "w") followed by write(text)
WriteFile(files, name, text) == [n \in DOMAIN files \cup {name} |-> IF n = name THEN text ELSE files[n]]

\* open(name, "a") followed by write(text)
AppendFile(files, name, text) ==
    WriteFile(files, name, (IF name \in DOMAIN files THEN files[name] ELSE <<>>) \o text)

\* what an earlier pre run captured for every command
PreCapture == <<"a", "\n">>

RECURSIVE AfterPreRun(_, _, _)
\* the ticket directory as a pre run over one host leaves it when every one of the
\* first n commands gave PreCapture and every write succeeded (lines 128-145)
AfterPreRun(host, list, n) ==
    IF n = 0 THEN <<>>
    ELSE AppendFile(WriteFile(AfterPreRun(host, list, n - 1),
                              output_file(host, list[n], "pre"), PreCapture),
                    consolidated_file(host, "pre"),
                    ConsolidatedRecord(list[n], PreCapture))

\* The ticket directory when the script is first started here: new (lines 203-205),
\* or, for the batch of one host and two commands, as a pre run has left it.
TicketDirectories(hostlist, list) ==
    {<<>>} \cup (IF hostlist = <<H1>> /\ list = <<ShowVersion, ShowClock>>
                THEN {AfterPreRun(H1, list, Len(list))}
                ELSE {})

Init ==
    /\ hosts \in HostFiles
    /\ commands \in CommandFiles
    /\ run = 0
    /\ health_check_type = "pre"
    /\ pc = "stopped"
    /\ h = 0
    /\ c = 0
    /\ spc = "idle"
    /\ conn = [i \in 1..Len(hosts) |-> "none"]
    /\ dev = <<>>
    /\ buf = <<>>
    /\ output = <<>>
    /\ fs \in TicketDirectories(hosts, commands)
    /\ unreachable_hosts = <<>>
    /\ error = [i \in 1..Len(hosts) |-> "pending"]
    /\ sent = <<>>
    /\ log = <<>>
    /\ reconciled = <<>>
    /\ summary = NoSummary
    /\ faults = 0
    /\ fresh = {}

(***************************************************************************)
(* main(): starting the script, lines 196-300                              *)
(***************************************************************************)
StartRun ==
    /\ pc = "stopped"
    /\ (run + 1) * Len(hosts) <= MaxSessions
    /\ run' = run + 1
    /\ \E t \in Phases : health_check_type' = t
    /\ pc' = "hosts"
    /\ h' = 1
    /\ c' = 0
    /\ spc' = "connect"
    \* a new process: no connection of an earlier run survives
    /\ conn' = [i \in 1..Len(hosts) |-> "none"]
    /\ unreachable_hosts' = <<>>
    /\ error' = [i \in 1..Len(hosts) |-> "pending"]
    /\ reconciled' = <<>>
    /\ summary' = NoSummary
    /\ fresh' = {}
    /\ UNCHANGED <<hosts, commands, dev, buf, output, fs, sent, log, faults>>

(***************************************************************************)
(* ssh_command() returns to the loop of main(), lines 305-308, which       *)
(* records an error and goes on to the next host; after the last host the  *)
(* post phase goes on to the diff loop.                                    *)
(***************************************************************************)
\* a loop that gives up at the first host that fails
AfterHost_break(i, kind) ==
    IF kind # "None" THEN "summary"
    ELSE IF i < Len(hosts) THEN "hosts"
    ELSE IF health_check_type = "post" THEN "diff_open" ELSE "summary"

\* a loop that goes on to the diff whatever the phase
AfterHost_anyphase(i, kind) ==
    IF i < Len(hosts) THEN "hosts" ELSE "diff_open"

\* kind is what ssh_command returned for host i: the loop does not branch on it
AfterHost(i, kind) ==
    IF i < Len(hosts) THEN "hosts"
    ELSE IF health_check_type = "post" THEN "diff_open" ELSE "summary"

Return(kind) ==
    /\ error' = [error EXCEPT ![h] = kind]
    /\ unreachable_hosts' =
         IF kind # "None" THEN Append(unreachable_hosts, hosts[h]) ELSE unreachable_hosts
    /\ pc' = AfterHost(h, kind)
    /\ h' = IF pc' = "hosts" THEN h + 1 ELSE 1
    /\ spc' = IF pc' = "hosts" THEN "connect" ELSE "idle"
    /\ c' = 0
    /\ dev' = <<>>
    /\ buf' = <<>>
    /\ output' = <<>>
    /\ sent' = <<>>
    /\ log' = <<>>

InSession(at) == pc = "hosts" /\ spc = at

\* line 78: ssh.connect(...)
Connect ==
    /\ InSession("connect")
    /\ conn' = [conn EXCEPT ![h] = "live"]
    /\ spc' = "shell"
    /\ UNCHANGED <<hosts, commands, run, fresh, health_check_type, pc, h, c, dev, buf, output,
                   fs, unreachable_hosts, error, sent, log, reconciled, summary, faults>>

\* line 78 raising: AuthenticationException (151), NoValidConnectionsError (154),
\* any other exception (157); no connection was set up
ConnectFails ==
    /\ InSession("connect")
    /\ \E kind \in {"auth", "unreachable", "other"} : Return(kind)
    /\ UNCHANGED <<hosts, commands, run, fresh, health_check_type, conn, fs, reconciled, summary, faults>>

\* lines 82-87: the shell is active
InvokeShell ==
    /\ InSession("shell")
    /\ spc' = "flush"
    /\ UNCHANGED <<hosts, commands, run, fresh, health_check_type, pc, h, c, conn, dev, buf,
                   output, fs, unreachable_hosts, error, sent, log, reconciled, summary, faults>>

\* the shell is found inactive only after "clear logging" was sent
ShellInactive_late ==
    /\ InSession("flush2")
    /\ Return("inactive")
    /\ UNCHANGED <<hosts, commands, run, fresh, health_check_type, conn, fs, reconciled, summary, faults>>

\* lines 86-87: the shell is not active, RuntimeError, caught at 157
ShellInactive ==
    /\ InSession("shell")
    /\ Return("inactive")
    /\ UNCHANGED <<hosts, commands, run, fresh, health_check_type, conn, fs, reconciled, summary, faults>>

\* the remote device: some of what it has printed reaches the channel.  The channel
\* is looked at by the polling loops alone, so bytes arriving at any other moment are
\* the same as bytes arriving just before the next poll, and bytes arriving on top of
\* unread ones are the same as one larger delivery.
Deliver ==
    /\ pc = "hosts"
    /\ spc \in {"flush", "flush2", "recv"}
    /\ buf = <<>>
    /\ \E n \in 1..Len(dev) :
         /\ buf' = SubSeq(dev, 1, n)
         /\ dev' = SubSeq(dev, n + 1, Len(dev))
    /\ UNCHANGED <<hosts, commands, run, fresh, health_check_type, pc, h, c, spc, conn, output,
                   fs, unreachable_hosts, error, sent, log, reconciled, summary, faults>>

\* the remote device prints of its own accord (a console message, a banner that goes
\* on) and the bytes reach the channel before the next poll.  Followed in the two
\* flush loops, where what is read is thrown away; in the read loop of a command the
\* same bytes would be added to the captured text.
Chatter ==
    /\ pc = "hosts"
    /\ spc \in {"flush", "flush2"}
    /\ buf = <<>>
    /\ buf' = Tagged(OwnBytes, OwnTag)
    /\ UNCHANGED <<hosts, commands, run, fresh, health_check_type, pc, h, c, spc, conn, dev,
                   output, fs, unreachable_hosts, error, sent, log, reconciled, summary, faults>>

\* lines 91-92 and 98-99: while recv_ready(): recv(65535), one iteration
Flush ==
    /\ pc = "hosts"
    /\ spc \in {"flush", "flush2"}
    /\ buf # <<>>
    /\ buf' = <<>>
    /\ UNCHANGED <<hosts, commands, run, fresh, health_check_type, pc, h, c, spc, conn, dev,
                   output, fs, unreachable_hosts, error, sent, log, reconciled, summary, faults>>

\* A loop that polls recv_ready() ends when the channel is empty, whether or not the
\* device has delivered all it printed: ending it early is the environment's fault.
LoopEnds ==
    /\ buf = <<>>
    /\ dev # <<>> => faults < MaxFaults
    /\ faults' = IF dev # <<>> THEN faults + 1 ELSE faults

\* lines 91 and 98: recv_ready() is false, the flush loop ends
FlushDone ==
    /\ pc = "hosts"
    /\ spc \in {"flush", "flush2"}
    /\ LoopEnds
    /\ spc' = IF spc = "flush" THEN "clear" ELSE "send"
    /\ c' = IF spc = "flush" THEN c ELSE 1
    /\ UNCHANGED <<hosts, commands, run, fresh, health_check_type, pc, h, conn, dev, buf,
                   output, fs, unreachable_hosts, error, sent, log, reconciled, summary>>

\* "clear logging" sent twice
ClearLogging_twice ==
    /\ InSession("clear")
    /\ sent' = sent \o <<ClearTag, ClearTag>>
    /\ dev' = dev \o Tagged(ClearReply, ClearTag)
    /\ spc' = "flush2"
    /\ UNCHANGED <<hosts, commands, run, fresh, health_check_type, pc, h, c, conn, buf, output,
                   fs, unreachable_hosts, error, log, reconciled, summary, faults>>

\* line 96: ssh_shell.send("clear logging\n")
ClearLogging ==
    /\ InSession("clear")
    /\ sent' = Append(sent, ClearTag)
    /\ dev' = dev \o Tagged(ClearReply, ClearTag)
    /\ spc' = "flush2"
    /\ UNCHANGED <<hosts, commands, run, fresh, health_check_type, pc, h, c, conn, buf, output,
                   fs, unreachable_hosts, error, log, reconciled, summary, faults>>

\* line 114: ssh_shell.send(command + "\n"); the device will print its answer
SendCommand ==
    /\ InSession("send")
    /\ sent' = Append(sent, c)
    /\ \E reply \in Replies : dev' = dev \o Tagged(reply, c)
    /\ output' = <<>>
    /\ spc' = "recv"
    /\ UNCHANGED <<hosts, commands, run, fresh, health_check_type, pc, h, c, conn, buf,
                   fs, unreachable_hosts, error, log, reconciled, summary, faults>>

\* lines 96, 114, 121: send() or recv() raises (socket error, channel closed),
\* caught at 157; the connection is not closed on this path
ChannelFails ==
    /\ pc = "hosts"
    /\ spc \in {"clear", "send", "recv"}
    /\ Return("io")
    /\ UNCHANGED <<hosts, commands, run, fresh, health_check_type, conn, fs, reconciled, summary, faults>>

\* lines 119-121: output += ssh_shell.recv(65535).decode('utf-8'), one iteration
Recv ==
    /\ InSession("recv")
    /\ buf # <<>>
    /\ output' = output \o buf
    /\ buf' = <<>>
    /\ UNCHANGED <<hosts, commands, run, fresh, health_check_type, pc, h, c, spc, conn, dev,
                   fs, unreachable_hosts, error, sent, log, reconciled, summary, faults>>

\* lines 119-120: recv_ready() is false, the read loop ends
RecvDone ==
    /\ InSession("recv")
    /\ LoopEnds
    /\ spc' = "store"
    /\ UNCHANGED <<hosts, commands, run, fresh, health_check_type, pc, h, c, conn, dev, buf,
                   output, fs, unreachable_hosts, error, sent, log, reconciled, summary>>

NextCommand ==
    /\ c' = IF c < Len(commands) THEN c + 1 ELSE c
    /\ spc' = IF c < Len(commands) THEN "send" ELSE "close"

\* a command that gave no output is sent again
NoOutput_retry ==
    /\ InSession("store")
    /\ StripIsEmpty(Text(output))
    /\ spc' = "send"
    /\ UNCHANGED <<hosts, commands, run, fresh, health_check_type, pc, h, c, conn, dev, buf,
                   output, fs, unreachable_hosts, error, sent, log, reconciled, summary, faults>>

\* lines 124-126: empty output: a warning, and on to the next command
NoOutput ==
    /\ InSession("store")
    /\ StripIsEmpty(Text(output))
    /\ log' = Append(log, [text |-> Text(output), snapshot |-> "no_output",
                            consolidated |-> "no_output"])
    /\ NextCommand
    /\ UNCHANGED <<hosts, commands, run, fresh, health_check_type, pc, h, conn, dev, buf,
                   output, fs, unreachable_hosts, error, sent, reconciled, summary, faults>>

\* lines 131-136: the snapshot file, opened "w"; an IOError is logged and passed over:
\* open() failed (the file is as it was) or write() failed (the file was truncated)
SnapshotOutcomes == {"written", "open_failed", "write_failed"}
\* the snapshot opened "a"
WriteSnapshot_append(files, name, text, outcome) ==
    IF outcome = "written"
    THEN [n \in DOMAIN files \cup {name} |->
            IF n = name THEN (IF name \in DOMAIN files THEN files[name] ELSE <<>>) \o text
            ELSE files[n]]
    ELSE files
WriteSnapshot(files, name, text, outcome) ==
    CASE outcome = "written" -> WriteFile(files, name, text)
      [] outcome = "open_failed" -> files
      [] outcome = "write_failed" -> WriteFile(files, name, <<>>)

\* lines 139-145: the consolidated file, opened "a"; an IOError is logged and passed over
ConsolidatedOutcomes == {"appended", "failed"}
WriteConsolidated(files, name, command, text, outcome) ==
    IF outcome = "appended" THEN AppendFile(files, name, ConsolidatedRecord(command, text))
    ELSE files

\* an outcome in which open() or write() raised IOError
Raised(outcome) == IF outcome \in {"written", "appended"} THEN 0 ELSE 1

\* an IOError of the snapshot file that is not caught at 135 and ends the session
Store_raises ==
    /\ InSession("store")
    /\ ~StripIsEmpty(Text(output))
    /\ \E o1 \in SnapshotOutcomes, o2 \in ConsolidatedOutcomes :
         /\ faults' = faults + Raised(o1) + (IF o1 = "written" THEN Raised(o2) ELSE 0)
         /\ faults' <= MaxFaults
         /\ IF o1 = "written"
            THEN /\ log' = Append(log, [text |-> Text(output), snapshot |-> o1,
                                         consolidated |-> o2])
                 /\ fs' = WriteConsolidated(
                         WriteSnapshot(fs, output_file(hosts[h], commands[c], health_check_type),
                                       Text(output), o1),
                         consolidated_file(hosts[h], health_check_type),
                         commands[c], Text(output), o2)
                 /\ fresh' = fresh \cup {output_file(hosts[h], commands[c], health_check_type)}
                 /\ NextCommand
                 /\ UNCHANGED <<pc, h, conn, dev, buf, output, unreachable_hosts, error, sent>>
            ELSE /\ fs' = WriteSnapshot(fs, output_file(hosts[h], commands[c], health_check_type),
                                        Text(output), o1)
                 /\ Return("io")
                 /\ UNCHANGED <<conn, fresh>>
    /\ UNCHANGED <<hosts, commands, run, health_check_type, reconciled, summary>>

\* lines 128-145: the output of command c is stored
Store ==
    /\ InSession("store")
    /\ ~StripIsEmpty(Text(output))
    /\ \E o1 \in SnapshotOutcomes, o2 \in ConsolidatedOutcomes :
         /\ faults' = faults + Raised(o1) + Raised(o2)
         /\ faults' <= MaxFaults
         /\ log' = Append(log, [text |-> Text(output), snapshot |-> o1, consolidated |-> o2])
         /\ fs' = WriteConsolidated(
                 WriteSnapshot(fs, output_file(hosts[h], commands[c], health_check_type),
                               Text(output), o1),
                 consolidated_file(hosts[h], health_check_type),
                 commands[c], Text(output), o2)
         /\ fresh' = IF o1 \in {"written", "write_failed"}
                      THEN fresh \cup {output_file(hosts[h], commands[c], health_check_type)}
                      ELSE fresh
    /\ NextCommand
    /\ UNCHANGED <<hosts, commands, run, health_check_type, pc, h, conn, dev, buf,
                   output, unreachable_hosts, error, sent, reconciled, summary>>

\* lines 147-149: ssh.close(); return None
Close ==
    /\ InSession("close")
    /\ conn' = [conn EXCEPT ![h] = "closed"]
    /\ Return("None")
    /\ UNCHANGED <<hosts, commands, run, fresh, health_check_type, fs, reconciled, summary, faults>>

(***************************************************************************)
(* main(): the diff loop of the post phase, lines 311-343                  *)
(***************************************************************************)
PreMissing(command) ==
    command \o <<" - [WARNING] Pre file not found.", "\n", SEPARATOR, "\n">>

PostMissing(command) ==
    command \o <<" - [WARNING] Post file not found.", "\n", SEPARATOR, "\n">>

NoDifferences == <<"[INFO] No differences detected.", "\n">>

\* lines 332-342: both snapshots are read and compared
Compared(command, pre_file, post_file, pre_text, post_text) ==
    LET diff_output == unified_diff(readlines(pre_text), readlines(post_text),
                                    pre_file, post_file)
    IN  <<"Command: ">> \o command \o <<"\n">>
        \o (IF diff_output # <<>> THEN diff_output ELSE NoDifferences)
        \o <<"\n", SEPARATOR, "\n">>

\* a missing snapshot passed over without a section
DiffSection_silent(files, host, command) ==
    LET pre_file == output_file(host, command, "pre")
        post_file == output_file(host, command, "post")
    IN  IF pre_file \notin DOMAIN files \/ post_file \notin DOMAIN files THEN <<>>
        ELSE Compared(command, pre_file, post_file, files[pre_file], files[post_file])

\* lines 318-342: what one iteration of the command loop writes to the report
DiffSection(files, host, command) ==
    LET pre_file == output_file(host, command, "pre")
        post_file == output_file(host, command, "post")
    IN  IF pre_file \notin DOMAIN files THEN PreMissing(command)
        ELSE IF post_file \notin DOMAIN files THEN PostMissing(command)
        ELSE Compared(command, pre_file, post_file, files[pre_file], files[post_file])

\* the report opened "a"
DiffOpen_append ==
    /\ pc = "diff_open"
    /\ fs' = AppendFile(fs, diff_output_file(hosts[h]), <<>>)
    /\ reconciled' = Append(reconciled, h)
    /\ c' = 1
    /\ pc' = "diff"
    /\ UNCHANGED <<hosts, commands, run, fresh, health_check_type, h, spc, conn, dev, buf, output,
                   unreachable_hosts, error, sent, log, summary, faults>>

\* lines 313-316: the report of host h is opened "w"
DiffOpen ==
    /\ pc = "diff_open"
    /\ fs' = WriteFile(fs, diff_output_file(hosts[h]), <<>>)
    /\ reconciled' = Append(reconciled, h)
    /\ c' = 1
    /\ pc' = "diff"
    /\ UNCHANGED <<hosts, commands, run, fresh, health_check_type, h, spc, conn, dev, buf, output,
                   unreachable_hosts, error, sent, log, summary, faults>>

\* a command loop that ends at the first missing snapshot
AfterSection_break(i) ==
    IF i < Len(commands) /\ output_file(hosts[h], commands[i], "pre") \in DOMAIN fs
                         /\ output_file(hosts[h], commands[i], "post") \in DOMAIN fs
    THEN "diff"
    ELSE IF h < Len(hosts) THEN "diff_open" ELSE "summary"

\* after the section of command i: the next command, the next host, or the summary
AfterSection(i) ==
    IF i < Len(commands) THEN "diff"
    ELSE IF h < Len(hosts) THEN "diff_open" ELSE "summary"

\* lines 317-342: one iteration of the command loop
DiffCommand ==
    /\ pc = "diff"
    /\ fs' = AppendFile(fs, diff_output_file(hosts[h]), DiffSection(fs, hosts[h], commands[c]))
    /\ pc' = AfterSection(c)
    /\ c' = IF pc' = "diff" THEN c + 1 ELSE 0
    /\ h' = IF pc' = "diff_open" THEN h + 1 ELSE h
    /\ UNCHANGED <<hosts, commands, run, fresh, health_check_type, spc, conn, dev, buf, output,
                   unreachable_hosts, error, sent, log, reconciled, summary, faults>>

\* lines 345-368: the summary, and the script ends
Summary ==
    /\ pc = "summary"
    /\ summary' = [processed_count |-> Len(hosts) - Len(unreachable_hosts),
                   failed_count |-> Len(unreachable_hosts),
                   \* lines 356-357: for host in unreachable_hosts: print(f" - {host}")
                   failed |-> [n \in 1..Len(unreachable_hosts) |->
                                 <<" - ">> \o unreachable_hosts[n]]]
    /\ pc' = "stopped"
    /\ UNCHANGED <<hosts, commands, run, fresh, health_check_type, h, c, spc, conn, dev, buf,
                   output, fs, unreachable_hosts, error, sent, log, reconciled, faults>>

Next ==
    \/ StartRun
    \/ Connect
    \/ ConnectFails
    \/ InvokeShell
    \/ ShellInactive
    \/ Deliver
    \/ Chatter
    \/ Flush
    \/ FlushDone
    \/ ClearLogging
    \/ SendCommand
    \/ ChannelFails
    \/ Recv
    \/ RecvDone
    \/ NoOutput
    \/ Store
    \/ Close
    \/ DiffOpen
    \/ DiffCommand
    \/ Summary

Spec == Init /\ [][Next]_vars

\* The steps of the script: one thread, which goes on whenever it can.
Script ==
    \/ Connect \/ ConnectFails \/ InvokeShell \/ ShellInactive
    \/ Flush \/ FlushDone \/ ClearLogging \/ SendCommand \/ ChannelFails
    \/ Recv \/ RecvDone \/ NoOutput \/ Store \/ Close
    \/ DiffOpen \/ DiffCommand \/ Summary

\* The script never stops while it has a step to take, and what the device has
\* printed reaches the channel in the end.
FairSpec == Spec /\ WF_vars(Script) /\ WF_vars(Deliver)

(***************************************************************************)
(* Properties                                                              *)
(***************************************************************************)
Range(seq) == {seq[i] : i \in 1..Len(seq)}

\* the hosts whose ssh_command has returned in this run
Returned == {i \in 1..Len(hosts) : error[i] # "pending"}
\* the hosts whose ssh_command returned an error in this run
Failed == {i \in 1..Len(hosts) : error[i] \notin {"pending", "None"}}
\* the host loop of this run is over
HostLoopOver == pc \in {"diff_open", "diff", "summary"} \/ (pc = "stopped" /\ run > 0)

\* C1: whenever a host's processing has ended, by success or by any failure, its
\* connection is no longer live when the loop goes on to the next host, and at no
\* point are two connections live at once.
C1_ConnectionClosedOnEveryExit ==
    /\ pc = "hosts" => \A i \in 1..(h - 1) : conn[i] # "live"
    /\ Cardinality({i \in 1..Len(hosts) : conn[i] = "live"}) <= 1

\* C2: a failure of any kind on host i is recorded for host i, and ssh_command is
\* still invoked, in list order, for every host after i: the hosts that have returned
\* are a prefix of the list, the loop stands at the host after them, and once the loop
\* is over every host has returned.
C2_FailureDoesNotEndBatch ==
    /\ \A i \in Failed : hosts[i] \in Range(unreachable_hosts)
    /\ \A i \in Returned : \A j \in 1..i : j \in Returned
    /\ pc = "hosts" => h = Cardinality(Returned) + 1
    /\ HostLoopOver => Returned = 1..Len(hosts)

\* C2 witness: the first host of a batch of two failed and the second has returned too
C2_Witness ==
    /\ Len(hosts) = 2
    /\ error[1] \in {"auth", "unreachable", "inactive", "io"}
    /\ error[2] # "pending"

\* C3: the text captured for command c holds no byte that the device printed in answer
\* to an earlier command or to "clear logging".
C3_CaptureHoldsOnlyOwnOutput ==
    (pc = "hosts" /\ spc = "store") => Origins(output) \subseteq {c}

\* every character is whitespace (the empty text included)
Blank(text) == \A i \in 1..Len(text) : text[i] \in {" ", "\t", "\n", "\r"}

\* the snapshot of command k of the host in session
SessionSnapshot(k) == output_file(hosts[h], commands[k], health_check_type)
SessionConsolidated == consolidated_file(hosts[h], health_check_type)

\* C4 as claimed: when the output captured for a command is empty or whitespace only,
\* a placeholder is recorded as its output, so a snapshot of that command exists.
C4_PlaceholderRecorded ==
    pc = "hosts" =>
        \A k \in 1..Len(log) : log[k].snapshot = "no_output" => exists(SessionSnapshot(k))

\* C4 as amended: when the output captured for a command is empty or whitespace only,
\* nothing is recorded for it (no file is created or changed), the event is logged,
\* and the loop goes on to the next command of the host.
C4_EmptyOutputIsSkipped ==
    [][(pc = "hosts" /\ spc = "store" /\ Blank(Text(output))) =>
          /\ fs' = fs
          /\ Len(log') = c /\ log'[c].snapshot = "no_output"
          /\ pc' = "hosts"
          /\ IF c < Len(commands) THEN spc' = "send" /\ c' = c + 1 ELSE spc' = "close"]_vars

\* C4 witness: the first command gave no output, no snapshot of it exists, and the
\* second command has been transmitted
C4_Witness ==
    /\ pc = "hosts" /\ spc = "recv" /\ c = 2
    /\ log[1].snapshot = "no_output"
    /\ ~exists(SessionSnapshot(1))
    /\ sent = <<ClearTag, 1, 2>>

\* C5: right after a snapshot of command k was written, the file of its key holds
\* exactly the text written, whatever the file held before.
C5_SnapshotHoldsLastWrite ==
    (pc = "hosts" /\ spc \in {"send", "close"} /\ log # <<>>
       /\ log[Len(log)].snapshot = "written")
    => fs[SessionSnapshot(Len(log))] = log[Len(log)].text

\* C5 witness: an earlier run of the same phase captured "a" for the first command
\* (its record opens the consolidated file), this run wrote "b" under the same key
C5_Witness ==
    /\ pc = "hosts" /\ spc = "send" /\ Len(log) = 1
    /\ log[1].snapshot = "written"
    /\ log[1].text = <<"b", "\n">>
    /\ exists(SessionConsolidated)
    /\ LET first == ConsolidatedRecord(commands[1], <<"a", "\n">>)
       IN  /\ Len(fs[SessionConsolidated]) > Len(first)
           /\ SubSeq(fs[SessionConsolidated], 1, Len(first)) = first
    /\ fs[SessionSnapshot(1)] = <<"b", "\n">>

RECURSIVE SessionRecords(_)
\* one record per command 1..n of the session, in command order
SessionRecords(n) ==
    IF n = 0 THEN <<>>
    ELSE SessionRecords(n - 1) \o ConsolidatedRecord(commands[n], log[n].text)

\* C6: after a host's commands have all run, the consolidated file of (host, phase)
\* is one record per command, in command order, and nothing else.  Stated for the
\* sessions in which every command produced output and every append succeeded.
C6_ConsolidatedIsOneRecordPerCommand ==
    (pc = "hosts" /\ spc = "close"
       /\ \A k \in 1..Len(log) : log[k].consolidated = "appended")
    => /\ exists(SessionConsolidated)
       /\ fs[SessionConsolidated] = SessionRecords(Len(commands))

RECURSIVE SectionsOf(_, _)
\* a report cut into its sections: each ends with SEPARATOR and a newline
SectionsOf(text, cur) ==
    IF text = <<>> THEN (IF cur = <<>> THEN <<>> ELSE <<cur>>)
    ELSE IF Head(text) = SEPARATOR /\ Len(text) >= 2 /\ text[2] = "\n"
         THEN <<cur \o <<SEPARATOR, "\n">>>> \o SectionsOf(SubSeq(text, 3, Len(text)), <<>>)
    ELSE SectionsOf(Tail(text), Append(cur, Head(text)))

\* the sections of the diff report of host i
Report(i) == SectionsOf(fs[diff_output_file(hosts[i])], <<>>)
\* how many commands of host i the diff loop of this run has been through
Reported(i) ==
    IF i \notin Range(reconciled) THEN 0
    ELSE IF pc = "diff" /\ h = i THEN c - 1
    ELSE Len(commands)
\* the diff loop of this run is through with host i
Finished(i) == i \in Range(reconciled) /\ ~(pc = "diff" /\ h = i)

PreFile(i, k) == output_file(hosts[i], commands[k], "pre")
PostFile(i, k) == output_file(hosts[i], commands[k], "post")
BothExist(i, k) == exists(PreFile(i, k)) /\ exists(PostFile(i, k))

RECURSIVE Normalised(_)
\* a text with every "\r\n" and every lone "\r" turned into "\n"
Normalised(text) ==
    IF text = <<>> THEN <<>>
    ELSE IF Head(text) = "\r"
         THEN IF Len(text) >= 2 /\ text[2] = "\n"
              THEN <<"\n">> \o Normalised(SubSeq(text, 3, Len(text)))
              ELSE <<"\n">> \o Normalised(Tail(text))
    ELSE <<Head(text)>> \o Normalised(Tail(text))

\* the section that says "no differences" for a command
NoDifferencesSection(command) ==
    <<"Command: ">> \o command \o <<"\n", "[INFO] No differences detected.", "\n",
                                    "\n", SEPARATOR, "\n">>
\* a section that holds a unified diff for a command: the header of the section,
\* the two file labels, at least one hunk, the end of the section
IsDiffSection(section, command) ==
    LET head == <<"Command: ">> \o command \o <<"\n", "--- ">>
    IN  /\ Len(section) > Len(head) + 3
        /\ SubSeq(section, 1, Len(head)) = head
        /\ \E j \in 1..Len(section) : section[j] = "@@"
        /\ \E j \in 1..Len(section) : section[j] \in {"+", "-"}

\* C7 as claimed: where both snapshots of a command exist, its section is the "no
\* differences" marker if and only if the two captured texts are identical, and is a
\* non-empty unified diff otherwise.
C7_NoDifferencesIffIdentical ==
    \A i \in 1..Len(hosts) : \A k \in 1..Reported(i) :
        BothExist(i, k) =>
            IF fs[PreFile(i, k)] = fs[PostFile(i, k)]
            THEN Report(i)[k] = NoDifferencesSection(commands[k])
            ELSE IsDiffSection(Report(i)[k], commands[k])

\* C7 as amended: where both snapshots of a command exist, its section is the "no
\* differences" marker if and only if the two texts are identical once every "\r\n"
\* and every "\r" is read as "\n", and is a non-empty unified diff otherwise.
C7_NoDifferencesIffSameLines ==
    \A i \in 1..Len(hosts) : \A k \in 1..Reported(i) :
        BothExist(i, k) =>
            IF Normalised(fs[PreFile(i, k)]) = Normalised(fs[PostFile(i, k)])
            THEN Report(i)[k] = NoDifferencesSection(commands[k])
            ELSE IsDiffSection(Report(i)[k], commands[k])

\* C7 witness: a finished report whose first section says "no differences" for two
\* snapshots that differ in their line ends only, and whose second section is a diff
C7_Witness ==
    \E i \in 1..Len(hosts) :
        /\ Finished(i)
        /\ BothExist(i, 1) /\ BothExist(i, 2)
        /\ fs[PreFile(i, 1)] = <<"a", "\n">> /\ fs[PostFile(i, 1)] = <<"a", "\r", "\n">>
        /\ Report(i)[1] = NoDifferencesSection(commands[1])
        /\ fs[PreFile(i, 2)] = <<"a", "\n">> /\ fs[PostFile(i, 2)] = <<"b", "\n">>
        /\ IsDiffSection(Report(i)[2], commands[2])

\* C8: a command whose pre or post snapshot is absent gets a "missing" section, and
\* the loop goes on: every command the loop has been through has its section, the
\* one the snapshots of that command alone determine.
C8_MissingSnapshotIsMarked ==
    \A i \in 1..Len(hosts) : \A k \in 1..Reported(i) :
        /\ k <= Len(Report(i))
        /\ Report(i)[k] =
             IF ~exists(PreFile(i, k)) THEN PreMissing(commands[k])
             ELSE IF ~exists(PostFile(i, k)) THEN PostMissing(commands[k])
             ELSE Compared(commands[k], PreFile(i, k), PostFile(i, k),
                           fs[PreFile(i, k)], fs[PostFile(i, k)])

\* C8 witness: a finished report: the pre snapshot of the first command is absent and
\* marked so, the second command has both snapshots and its section is a comparison
C8_Witness ==
    \E i \in 1..Len(hosts) :
        /\ Finished(i)
        /\ ~exists(PreFile(i, 1)) /\ exists(PostFile(i, 1))
        /\ Report(i)[1] = PreMissing(commands[1])
        /\ BothExist(i, 2)
        /\ Report(i)[2] = NoDifferencesSection(commands[2])

\* the command a section is about: a "missing" section starts with the command, a
\* comparison with "Command: " and the command
IsSectionOf(section, command) ==
    \/ /\ Len(section) > Len(command) + 1
       /\ SubSeq(section, 1, Len(command)) = command
       /\ section[Len(command) + 1] \in {" - [WARNING] Pre file not found.",
                                         " - [WARNING] Post file not found."}
    \/ /\ Len(section) > Len(command) + 2
       /\ SubSeq(section, 1, Len(command) + 2) = <<"Command: ">> \o command \o <<"\n">>

\* C9: the report of every reconciled host has exactly one section per command of
\* the list, in the order of the list, whatever snapshots are missing.
C9_OneSectionPerCommand ==
    \A i \in 1..Len(hosts) :
        /\ i \in Range(reconciled) => Len(Report(i)) = Reported(i)
        /\ \A k \in 1..Reported(i) : IsSectionOf(Report(i)[k], commands[k])

\* C9 witness: a finished report with a section for a missing pre snapshot followed
\* by a section for a missing post snapshot
C9_Witness ==
    \E i \in 1..Len(hosts) :
        /\ Finished(i)
        /\ Len(Report(i)) = 2
        /\ ~exists(PreFile(i, 1))
        /\ exists(PreFile(i, 2)) /\ ~exists(PostFile(i, 2))

\* the sequence 1, 2, .., n
UpTo(n) == [i \in 1..n |-> i]

\* C10: no diff report is opened before the session of the last host has ended; in a
\* post run the hosts are reconciled one after the other in list order, each once,
\* and all of them by the end of the run; in a pre run none is.
C10_ReconciliationAfterCapture ==
    /\ (pc \in {"diff_open", "diff"} \/ reconciled # <<>>) =>
          health_check_type = "post" /\ Returned = 1..Len(hosts)
    /\ reconciled = UpTo(Len(reconciled))
    /\ Len(reconciled) <= Len(hosts)
    /\ (pc = "summary" \/ (pc = "stopped" /\ run > 0)) =>
          reconciled = IF health_check_type = "post" THEN UpTo(Len(hosts)) ELSE <<>>

\* C10 witness: a post run over two hosts has ended, both reconciled, the first after
\* its session had failed
C10_Witness ==
    /\ pc = "stopped" /\ health_check_type = "post"
    /\ Len(hosts) = 2
    /\ error[1] = "io" /\ error[2] = "None"
    /\ reconciled = <<1, 2>>

\* the commands of the list this session has transmitted, as indexes of the list
CommandsSent == SelectSeq(sent, LAMBDA k : k # ClearTag)
\* this step transmits command k of the list
Transmits(k) == sent' = Append(sent, k) /\ k # ClearTag

\* C11: in a session the commands are transmitted in list order, each at most once;
\* command k is transmitted only when the read loops of the commands before it have
\* ended, the last poll having found the channel empty; at most one command is
\* transmitted and not yet read to the end.
C11_OneCommandAtATime ==
    [][/\ \A k \in 1..Len(commands) :
             Transmits(k) => /\ CommandsSent = UpTo(k - 1)
                             /\ Len(log) = k - 1
                             /\ buf = <<>>
       /\ CommandsSent' = UpTo(Len(CommandsSent'))
       /\ Len(CommandsSent') - Len(log') \in {0, 1}
       /\ Len(CommandsSent') - Len(log') = 1 <=> (pc' = "hosts" /\ spc' \in {"recv", "store"})
       /\ (spc = "recv" /\ spc' = "store") => buf = <<>>]_vars

\* C11 witness: a session at its end: both commands were transmitted, one after the
\* other, after "clear logging", and both were read to the end
C11_Witness ==
    /\ pc = "hosts" /\ spc = "close"
    /\ sent = <<ClearTag, 1, 2>>
    /\ Len(log) = 2

RECURSIVE FailedUpTo(_)
\* the hosts among the first n whose session ended in a failure, in list order
FailedUpTo(n) ==
    IF n = 0 THEN <<>>
    ELSE FailedUpTo(n - 1) \o (IF n \in Failed THEN <<n>> ELSE <<>>)

\* the run has ended and its summary was printed
RunOver == pc = "stopped" /\ run > 0

\* C12: at the end of a run the failed list of the summary holds exactly the hosts
\* whose session failed, each with its failure reason, and the counts are: failed =
\* the hosts whose session failed, processed = the hosts whose session returned
\* without error, together all the hosts of the list.
C12_SummaryListsFailuresWithReasons ==
    RunOver =>
        LET failed == FailedUpTo(Len(hosts))
        IN  /\ Len(summary.failed) = Len(failed)
            /\ \A n \in 1..Len(failed) :
                  /\ summary.failed[n] = <<" - ">> \o hosts[failed[n]]
                     \/ \E j \in 1..Len(summary.failed[n]) :
                          SubSeq(summary.failed[n], j, j + Len(hosts[failed[n]]) - 1)
                              = hosts[failed[n]]
                  /\ error[failed[n]] \in Range(summary.failed[n])
            /\ summary.failed_count = Len(failed)
            /\ summary.processed_count
                  = Cardinality({i \in 1..Len(hosts) : error[i] = "None"})
            /\ summary.processed_count + summary.failed_count = Len(hosts)

\* this step is the storing of the output of command c, and the snapshot file of c
\* does not hold that output after it: open() or write() raised IOError
SnapshotWriteFails ==
    /\ pc = "hosts" /\ spc = "store" /\ ~Blank(Text(output))
    /\ ~(/\ SessionSnapshot(c) \in DOMAIN fs'
          /\ fs'[SessionSnapshot(c)] = Text(output))

\* C13: when the write of the snapshot of command k raises IOError, the failure is
\* logged, the session goes on and is not a host failure, no file but that of the
\* command (left as it was, or empty) and the consolidated file changes, and the loop
\* goes on to command k+1; a session that reaches its end has transmitted every
\* command, and a later snapshot that was written holds its text.
C13_SnapshotFailureSkipsOneFile ==
    [][/\ SnapshotWriteFails =>
             /\ Len(log') = c /\ log'[c].snapshot \in {"open_failed", "write_failed"}
             /\ pc' = "hosts" /\ h' = h
             /\ error' = error /\ unreachable_hosts' = unreachable_hosts
             /\ IF c < Len(commands) THEN spc' = "send" /\ c' = c + 1 ELSE spc' = "close"
             /\ \A name \in DOMAIN fs \cup DOMAIN fs' :
                   name \notin {SessionSnapshot(c), SessionConsolidated} =>
                       name \in DOMAIN fs /\ name \in DOMAIN fs' /\ fs'[name] = fs[name]
             /\ SessionSnapshot(c) \in DOMAIN fs' =>
                   \/ fs'[SessionSnapshot(c)] = <<>>
                   \/ exists(SessionSnapshot(c))
                      /\ fs'[SessionSnapshot(c)] = fs[SessionSnapshot(c)]
       /\ (pc' = "hosts" /\ spc' = "close") => CommandsSent' = UpTo(Len(commands'))
       /\ (pc' = "hosts" /\ log' # log /\ log' # <<>>
              /\ log'[Len(log')].snapshot = "written")
          => fs'[output_file(hosts[h], commands[Len(log')], health_check_type)]
                = log'[Len(log')].text]_vars

\* C13 witness: the snapshot of the first command could not be written, the second
\* command was transmitted all the same and its snapshot written, and the session
\* is at its end
C13_Witness ==
    /\ pc = "hosts" /\ spc = "close"
    /\ sent = <<ClearTag, 1, 2>>
    /\ log[1].snapshot \in {"open_failed", "write_failed"}
    /\ log[2].snapshot = "written"
    /\ exists(SessionSnapshot(2)) /\ fs[SessionSnapshot(2)] = log[2].text

\* the lines of a command list that are not blank, in their order
NonBlank(lines) == SelectSeq(lines, LAMBDA line : ~Blank(line))

\* C14: blank lines of the command file are ignored: no blank line is transmitted, no
\* snapshot has a blank line for its key, and a report has one section for each
\* non-blank line the diff loop has been through and none for a blank one.
C14_BlankLinesIgnored ==
    /\ \A n \in 1..Len(sent) : sent[n] # ClearTag => ~Blank(commands[sent[n]])
    /\ \A i \in 1..Len(hosts), k \in 1..Len(commands), phase \in Phases :
          Blank(commands[k]) => ~exists(output_file(hosts[i], commands[k], phase))
    /\ \A i \in 1..Len(hosts) :
          i \in Range(reconciled) =>
              Len(Report(i)) = Len(NonBlank(SubSeq(commands, 1, Reported(i))))

\* the snapshots of a host: the files of the ticket directory that are the pre or the
\* post snapshot of a command of the list
SnapshotsOf(host) ==
    LET names == {output_file(host, commands[k], phase) :
                     k \in 1..Len(commands), phase \in Phases} \cap DOMAIN fs
    IN  [name \in names |-> fs[name]]

RECURSIVE Reconciliation(_, _, _)
\* the report as a function of the snapshots and the first n commands of the list
Reconciliation(snapshots, host, n) ==
    IF n = 0 THEN <<>>
    ELSE Reconciliation(snapshots, host, n - 1) \o DiffSection(snapshots, host, commands[n])

\* C15: the report that a reconciliation leaves for a host is a function of the
\* host's snapshots and the command list alone: whatever the report file held before,
\* whatever other hosts' reports hold, however many runs came before.  So a second
\* reconciliation over unchanged snapshots leaves the same report.
C15_ReportIsFunctionOfSnapshots ==
    \A i \in 1..Len(hosts) :
        i \in Range(reconciled) =>
            fs[diff_output_file(hosts[i])]
                = Reconciliation(SnapshotsOf(hosts[i]), hosts[i], Reported(i))

\* C15 witness: the second post run of a host has ended; its session failed at
\* connect, so no snapshot changed since the post run before it, whose post
\* snapshot is there; the host was reconciled again, to a report with a comparison
C15_Witness ==
    /\ RunOver /\ run = 2 /\ health_check_type = "post"
    /\ error[1] = "unreachable"
    /\ fresh = {}
    /\ reconciled = <<1>>
    /\ BothExist(1, 1)
    /\ Len(Report(1)) = Len(commands)

\* C16: every session comes to an end: from any point of the session of host i, the
\* loop of main() gets past host i, whatever the device does.
C16_SessionTerminates ==
    \A i \in 1..2 : (pc = "hosts" /\ h = i) ~> ~(pc = "hosts" /\ h = i)

\* C17: two distinct commands of the list have distinct snapshot file names, so at
\* the end of a session in which every snapshot was written, each command's snapshot
\* holds the output of that command.
C17_SafeTokenIsCollisionFree ==
    (pc = "hosts" /\ spc = "close" /\ \A k \in 1..Len(log) : log[k].snapshot = "written")
    => \A j \in 1..Len(commands), k \in 1..Len(commands) :
          commands[j] # commands[k] =>
              /\ SessionSnapshot(j) # SessionSnapshot(k)
              /\ fs[SessionSnapshot(j)] = log[j].text

\* this step is ssh_command returning for host h because the shell was not active
FailsInactive == pc = "hosts" /\ error[h] = "pending" /\ error'[h] = "inactive"

\* C18: when the shell of a host is not active, nothing has been transmitted to the
\* host (not "clear logging", no command of the list), nothing was or is written for
\* it, and the host is added to the failed hosts; up to the check of the shell a
\* session transmits and stores nothing.
C18_InactiveShellFailsFast ==
    [][/\ FailsInactive =>
             /\ sent = <<>> /\ log = <<>> /\ dev = <<>>
             /\ fs' = fs /\ fresh' = fresh
             /\ unreachable_hosts' = Append(unreachable_hosts, hosts[h])
       /\ (pc' = "hosts" /\ spc' \in {"connect", "shell"}) => sent' = <<>> /\ log' = <<>>]_vars

\* C18 witness: the shell of the first of two hosts was not active: the host is in
\* the failed list, the ticket directory is still empty, and the loop is at the
\* second host
C18_Witness ==
    /\ Len(hosts) = 2 /\ run = 1
    /\ error[1] = "inactive"
    /\ unreachable_hosts = <<hosts[1]>>
    /\ fs = <<>>
    /\ pc = "hosts" /\ h = 2 /\ spc = "connect"

\* C19: every comparison of a report of this run reads a post snapshot that this run
\* has written: where both snapshots of a command exist when the diff loop gets to
\* it, the post snapshot is one of this run.
C19_DiffReadsThisRunsSnapshots ==
    \A i \in 1..Len(hosts) : \A k \in 1..Reported(i) :
        BothExist(i, k) => PostFile(i, k) \in fresh

\* what is sent to the device by transmission k: "clear logging" or a command
Transmission(k) ==
    IF k = ClearTag THEN <<"clear logging", "\n">> ELSE commands[k] \o <<"\n">>

\* C20 as claimed: whatever a session transmits is an entry of the command list, and
\* the transmissions are the entries of the list in list order.
C20_OnlyListCommandsSent ==
    /\ \A n \in 1..Len(sent) :
          \E k \in 1..Len(commands) : Transmission(sent[n]) = commands[k] \o <<"\n">>
    /\ sent = UpTo(Len(sent))

\* C20 as amended: a session transmits "clear logging" once, before anything else,
\* and after it entries of the command list, in list order, and nothing else.
C20_ClearLoggingThenListCommands ==
    /\ Len(sent) <= Len(commands) + 1
    /\ \A n \in 1..Len(sent) :
          Transmission(sent[n]) =
              IF n = 1 THEN <<"clear logging", "\n">> ELSE commands[n - 1] \o <<"\n">>

\* C20 witness: "clear logging" and the first command of the list have been
\* transmitted, and the script reads the output of the command
C20_Witness ==
    /\ pc = "hosts" /\ spc = "recv" /\ c = 1
    /\ Transmission(sent[1]) = <<"clear logging", "\n">>
    /\ Len(sent) = 2 /\ Transmission(sent[2]) = commands[1] \o <<"\n">>

\* the files this step creates, removes or changes
Touched ==
    {name \in DOMAIN fs \cup DOMAIN fs' :
        ~(name \in DOMAIN fs /\ name \in DOMAIN fs' /\ fs'[name] = fs[name])}

\* the suffix of a file name: what follows its last "."
Suffix(name) == name[Len(name)]

\* the suffixes of the files of a phase: snapshots, the consolidated file, and for
\* post the reports
PhaseSuffixes(phase) ==
    IF phase = "pre" THEN {"pre", "precheck"} ELSE {"post", "postcheck", "out"}

\* the pre snapshots and pre consolidated files of the hosts and commands of the batch
PreArtifacts ==
    {output_file(hosts[i], commands[k], "pre") : i \in 1..Len(hosts), k \in 1..Len(commands)}
    \cup {consolidated_file(hosts[i], "pre") : i \in 1..Len(hosts)}

\* C21: a step of a run in phase p creates or changes only files of phase p (snapshots
\* .p, the consolidated .pcheck file, and in post the .out reports) and removes none;
\* a post run, its diff loop included, leaves every pre snapshot and every pre
\* consolidated file as it was.
C21_RunTouchesOnlyItsPhase ==
    [][/\ \A name \in Touched :
             /\ name \in DOMAIN fs'
             /\ Suffix(name) \in PhaseSuffixes(health_check_type)
       /\ health_check_type = "post" =>
             \A name \in PreArtifacts :
                 /\ name \in DOMAIN fs <=> name \in DOMAIN fs'
                 /\ name \in DOMAIN fs => fs'[name] = fs[name]]_vars

\* C21 witness: a post run over a directory that holds the pre files has ended: it
\* wrote a post snapshot, the post consolidated file and the report, and the pre
\* snapshot and the pre consolidated file are as the pre run left them
C21_Witness ==
    /\ RunOver /\ run = 1 /\ health_check_type = "post"
    /\ PostFile(1, 1) \in fresh
    /\ exists(consolidated_file(hosts[1], "post"))
    /\ exists(diff_output_file(hosts[1]))
    /\ exists(PreFile(1, 1)) /\ fs[PreFile(1, 1)] = PreCapture
    /\ exists(consolidated_file(hosts[1], "pre"))
    /\ fs[consolidated_file(hosts[1], "pre")]
          = ConsolidatedRecord(commands[1], PreCapture)
            \o ConsolidatedRecord(commands[2], PreCapture)

====
